---- MODULE Spec2Model ----
(***************************************************************************)
(* SimpleVector<Type> of src/include/simple_vector.h as a state machine.   *)
(*                                                                         *)
(* Two objects, "a" and "b": each names a variable of the client program   *)
(* that holds one container at a time (alive), from its construction to    *)
(* its destruction, after which a new one can be constructed there.  An    *)
(* object is its three data members: items_ (the array owned by its        *)
(* ArrayPtr, a sequence whose length is the allocated length; the empty    *)
(* sequence is the null pointer), size_ and capacity_.  Slot i of the C++   *)
(* array is element i+1 of the sequence.  Every public operation is one    *)
(* action.                                                                 *)
(*                                                                         *)
(* Type is instantiated at a trivially copyable two-valued type whose      *)
(* value-initialised value Type() is Default: moving an element copies it. *)
(*                                                                         *)
(* An access outside the allocated array is undefined behaviour.  The      *)
(* model lets the build choose: an out-of-bounds read yields any value, an *)
(* out-of-bounds write through a non-null pointer lands outside every      *)
(* container or on a slot of the other container's array.  After it,       *)
(* status is "ub" and nothing more is modelled.  assert() is compiled in   *)
(* or out by the build (NDEBUG): where the asserted condition is false the *)
(* call either ends the program with status "aborted" (assertions kept) or *)
(* goes on as if the line were not there (NDEBUG).                         *)
(*                                                                         *)
(* Three specifications.  Spec runs the operations in any order from two   *)
(* empty containers.  SpecPure applies At, the comparison operators and a  *)
(* growing Resize once to containers in any state up to MaxPure slots.     *)
(* SpecLoop steps through the capacity loop of Resize on a size_t of       *)
(* WordBits bits.                                                          *)
(***************************************************************************)
EXTENDS Naturals, Sequences, FiniteSets

\* Bound: the two containers' capacities never add up to more than this.
MaxSlots == 4
\* Bound: longest initializer list.
MaxInit == 2
\* Bound: longest array of a container taken as the input of a single call.
MaxPure == 3
\* Bound: the number of bits of size_t where its wrap-around is modelled.
WordBits == 4

Objs == {"a", "b"}

RECURSIVE Pow2(_)
Pow2(k) == IF k = 0 THEN 1 ELSE 2 * Pow2(k - 1)
Other(o) == CHOOSE p \in Objs : p # o

\* The element type and Type().
Type == {0, 1}
Default == 0

VARIABLES items_, size_, capacity_, alive, status, last

vars == <<items_, size_, capacity_, alive, status, last>>

\* The data members of object o, with two flags: a write (oob) or a read
\* (oobread) fell outside the array.
Vec(o) ==
    [items |-> items_[o], size |-> size_[o], capacity |-> capacity_[o],
     oob |-> FALSE, oobread |-> FALSE]

\* SimpleVector() noexcept = default.
EmptyVec ==
    [items |-> <<>>, size |-> 0, capacity |-> 0, oob |-> FALSE, oobread |-> FALSE]

\* ArrayPtr<Type> temp(n): n default-constructed elements, null when n = 0.
ArrayPtr(n) == [i \in 1..n |-> Default]

\* *(items_.Get() + i) = x
Store(v, i, x) ==
    IF i < Len(v.items)
    THEN [v EXCEPT !.items[i + 1] = x]
    ELSE [v EXCEPT !.oob = TRUE]

\* std::move(first, last, d_first) of the elements s into slots from, from+1, ...
MoveInto(v, from, s) ==
    [v EXCEPT !.items = [i \in 1..Len(v.items) |->
                            IF i > from /\ i <= from + Len(s)
                            THEN s[i - from] ELSE v.items[i]],
              !.oob = v.oob \/ (Len(s) > 0 /\ from + Len(s) > Len(v.items))]

\* The elements [0, size) of v.
Live(v) == SubSeq(v.items, 1, v.size)

(***************************************************************************)
(* The member functions, as functions of the object's data members.        *)
(***************************************************************************)

\* SimpleVector(size_t size, const Type& value)
FillCtor(size, value) ==
    [items |-> IF size > 0 THEN [i \in 1..size |-> value] ELSE <<>>,
     size |-> size, capacity |-> size, oob |-> FALSE, oobread |-> FALSE]

\* SimpleVector(std::initializer_list<Type> init)
ListCtor(init) ==
    [items |-> IF Len(init) > 0 THEN [i \in 1..Len(init) |-> init[i]] ELSE <<>>,
     size |-> Len(init), capacity |-> Len(init), oob |-> FALSE, oobread |-> FALSE]

\* A growth that doubles once ("if" for "while").
GrowCapacity_Once(capacity, new_size) ==
    IF new_size > capacity
    THEN (IF capacity = 0 THEN 1 ELSE capacity * 2)
    ELSE capacity

\* while (new_size > capacity_) capacity_ = (capacity_ == 0) ? 1 : capacity_ * 2;
\* A growth to exactly the requested size.
GrowCapacity_Exact(capacity, new_size) ==
    IF new_size > capacity THEN new_size ELSE capacity

RECURSIVE GrowCapacity(_, _)
GrowCapacity(capacity, new_size) ==
    IF new_size > capacity
    THEN GrowCapacity(IF capacity = 0 THEN 1 ELSE capacity * 2, new_size)
    ELSE capacity

\* The body of Resize's "if (new_size > size_)".
ResizeGrow(v, new_size) ==
    LET realloc == new_size > v.capacity
        cap == IF realloc THEN GrowCapacity(v.capacity, new_size) ELSE v.capacity
        \* ArrayPtr<Type> temp(capacity_);
        \* if (begin() != nullptr) std::move(begin(), end(), temp.Get());
        buf == IF realloc
               THEN [i \in 1..cap |->
                       IF Len(v.items) > 0 /\ i <= v.size
                       THEN v.items[i] ELSE ArrayPtr(cap)[i]]
               ELSE v.items
        \* for (it = begin() + size_; it != begin() + new_size; ++it) *it = Type();
        filled == [i \in 1..Len(buf) |->
                       IF i > v.size /\ i <= new_size THEN Default ELSE buf[i]]
    IN  [items |-> filled, size |-> new_size, capacity |-> cap,
         oob |-> v.oob \/ new_size > Len(buf), oobread |-> v.oobread]

\* A Resize that gives the unused slots back when it shrinks.
Resize_ShrinkToFit(v, new_size) ==
    IF new_size > v.size
    THEN ResizeGrow(v, new_size)
    ELSE [v EXCEPT !.size = new_size, !.capacity = new_size,
                   !.items = SubSeq(v.items, 1, new_size)]

\* void Resize(size_t new_size)
Resize(v, new_size) ==
    IF new_size > v.size
    THEN ResizeGrow(v, new_size)
    ELSE [v EXCEPT !.size = new_size]

\* A Reserve that allocates the new array and moves nothing into it.
Reserve_Fresh(v, new_capacity, garbage) ==
    IF new_capacity > v.capacity
    THEN [v EXCEPT !.items = ArrayPtr(new_capacity), !.capacity = new_capacity]
    ELSE v

\* void Reserve(size_t new_capacity); garbage[i] is what a read of slot i-1
\* yields when that slot lies outside the array.
Reserve(v, new_capacity, garbage) ==
    IF new_capacity > v.capacity
    THEN LET moved == v.size > 0      \* begin() != end()
         IN  [items |-> [i \in 1..new_capacity |->
                            IF moved /\ i <= v.capacity
                            THEN IF i <= Len(v.items) THEN v.items[i] ELSE garbage[i]
                            ELSE Default],       \* *it = Type()
              size |-> v.size, capacity |-> new_capacity, oob |-> v.oob,
              oobread |-> v.oobread \/ (moved /\ v.capacity > Len(v.items))]
    ELSE v

\* The slots Reserve(new_capacity) reads outside the array of v.
ReserveOutside(v, new_capacity) ==
    IF new_capacity > v.capacity /\ v.size > 0
    THEN (Len(v.items) + 1)..v.capacity
    ELSE {}

\* SimpleVector(ReserveProxyObj capacity)
ReserveCtor(capacity_to_reserve) == Reserve(EmptyVec, capacity_to_reserve, <<>>)

\* SimpleVector(const SimpleVector& other)
CopyCtor(other) ==
    LET temp == FillCtor(other.size, Default)
        copied == MoveInto(temp, 0, Live(other))
    IN  [copied EXCEPT !.size = other.size, !.capacity = other.capacity]

\* void PushBack(const Type& item) / void PushBack(Type&& item)
PushBack(v, item) ==
    LET r == Resize(v, v.size + 1)
    IN  Store(r, r.size - 1, item)

\* void PopBack(): called with size_ > 0
PopBack(v) == [v EXCEPT !.size = v.size - 1]

\* void Clear()
Clear(v) == [v EXCEPT !.size = 0]

\* Iterator Insert(ConstIterator pos, Type&& value), pos = begin() + index
Insert(v, index, value) ==
    IF v.size = 0                     \* begin() == end()
    THEN Store(Resize(v, v.size + 1), 0, value)
    ELSE LET dist == v.size - index
             temp == SubSeq(v.items, index + 1, v.size)
             r == Resize(v, v.size + 1)
             t == r.size - dist - 1
         IN  MoveInto(Store(r, t, value), t + 1, temp)

\* The iterator Insert returns, as an index into the array after the call:
\* begin(), or t = end() - dist - 1.
InsertReturn(v, index) ==
    IF v.size = 0 THEN 0
    ELSE LET dist == v.size - index IN (v.size + 1) - dist - 1

\* The iterator Erase returns: p = pos.
EraseReturn(v, index) == index

\* An Erase that drops the last element whatever the position.
Erase_DropsLast(v, index) == [v EXCEPT !.size = v.size - 1]

\* Iterator Erase(ConstIterator pos), pos = begin() + index, index < size_
Erase(v, index) ==
    MoveInto([v EXCEPT !.size = v.size - 1], index,
             SubSeq(v.items, index + 2, v.size))

\* An operator== that compares the arrays, not the live elements.
Equal_WholeArray(lhs, rhs, same) ==
    same \/ (lhs.size = rhs.size /\ lhs.items = rhs.items)

\* operator==(lhs, rhs); same is &lhs == &rhs
Equal(lhs, rhs, same) ==
    same \/ (lhs.size = rhs.size /\ Live(lhs) = Live(rhs))

\* operator!=(lhs, rhs)
NotEqual(lhs, rhs, same) == ~Equal(lhs, rhs, same)

\* std::lexicographical_compare(first1, last1, first2, last2) on two ranges
RECURSIVE lexicographical_compare(_, _)
lexicographical_compare(r1, r2) ==
    IF r1 = <<>> \/ r2 = <<>> THEN r1 = <<>> /\ r2 # <<>>
    ELSE IF Head(r1) < Head(r2) THEN TRUE
    ELSE IF Head(r2) < Head(r1) THEN FALSE
    ELSE lexicographical_compare(Tail(r1), Tail(r2))

\* operator<(lhs, rhs)
Less(lhs, rhs) == lexicographical_compare(Live(lhs), Live(rhs))

\* operator>=(lhs, rhs): !(lhs < rhs)
GreaterEq(lhs, rhs) == ~Less(lhs, rhs)

\* operator>(lhs, rhs): rhs < lhs
Greater(lhs, rhs) == Less(rhs, lhs)

\* An operator<= that forgets to exchange its operands.
LessEq_Unswapped(lhs, rhs) == GreaterEq(lhs, rhs)

\* operator<=(lhs, rhs): rhs >= lhs
LessEq(lhs, rhs) == GreaterEq(rhs, lhs)

\* Type& operator[](size_t index), read: what the call returns.
Subscript(v, index) == v.items[index + 1]

\* An At that compares the index with capacity_.
At_ChecksCapacity(v, index) ==
    IF index >= v.capacity \/ index >= Len(v.items)
    THEN [threw |-> TRUE, value |-> Default]
    ELSE [threw |-> FALSE, value |-> v.items[index + 1]]

\* Type& At(size_t index): throws std::out_of_range or returns items_[index].
At(v, index) ==
    IF index >= v.size
    THEN [threw |-> TRUE, value |-> Default]
    ELSE [threw |-> FALSE, value |-> v.items[index + 1]]

\* operator=(const SimpleVector& rhs) once the assertion is passed
CopyAssign(this, rhs) == CopyCtor(rhs)

\* operator=(SimpleVector&& rhs) once the assertion is passed
MoveAssign(this, rhs) ==
    MoveInto(Resize(this, rhs.size), 0, Live(rhs))

(***************************************************************************)
(* The state machine.                                                      *)
(***************************************************************************)

\* The call that produced the state: the operation, the object it was called
\* on, its other operand, and for Resize the requested size and the size before.
\* For Reserve n is the capacity requested.
\* For PushBack and Insert x is the value passed; for Insert and Erase n is the
\* index of the position passed and ret the index of the position returned.
NoOp ==
    [op |-> "none", tgt |-> "a", src |-> "a", n |-> 0, osize |-> 0, x |-> 0, ret |-> 0]

Call(op, tgt, src) ==
    [op |-> op, tgt |-> tgt, src |-> src, n |-> 0, osize |-> 0, x |-> 0, ret |-> 0]

Init ==
    /\ items_ = [o \in Objs |-> EmptyVec.items]
    /\ size_ = [o \in Objs |-> EmptyVec.size]
    /\ capacity_ = [o \in Objs |-> EmptyVec.capacity]
    /\ alive = [o \in Objs |-> TRUE]
    /\ status = "ok"
    /\ last = NoOp

\* What a write outside the array of o can do to the other container's array:
\* nothing, or overwrite one of its slots.
Clobbered(o) ==
    {items_[Other(o)]} \cup
    {[items_[Other(o)] EXCEPT ![k] = g] : k \in DOMAIN items_[Other(o)], g \in Type}

\* Object o ends the call with the data members r.
Return(o, r, call) ==
    /\ r.capacity + capacity_[Other(o)] <= MaxSlots
    /\ size_' = [size_ EXCEPT ![o] = r.size]
    /\ capacity_' = [capacity_ EXCEPT ![o] = r.capacity]
    /\ status' = IF r.oob \/ r.oobread THEN "ub" ELSE "ok"
    /\ \E c \in (IF r.oob /\ Len(items_[o]) > 0
                 THEN Clobbered(o) ELSE {items_[Other(o)]}) :
          items_' = [p \in Objs |-> IF p = o THEN r.items ELSE c]
    /\ alive' = [alive EXCEPT ![o] = TRUE]
    /\ last' = call

\* A failed assert() in a build that keeps assertions: abort().
Abort(call) ==
    /\ status' = "aborted"
    /\ last' = call
    /\ UNCHANGED <<items_, size_, capacity_, alive>>

Lists == UNION {[1..k -> Type] : k \in 0..MaxInit}

NewFill(o, n, x) ==
    /\ status = "ok"
    /\ ~alive[o]
    /\ Return(o, FillCtor(n, x), Call("FillCtor", o, o))

NewList(o, init) ==
    /\ status = "ok"
    /\ ~alive[o]
    /\ Return(o, ListCtor(init), Call("ListCtor", o, o))

NewReserve(o, n) ==
    /\ status = "ok"
    /\ ~alive[o]
    /\ Return(o, ReserveCtor(n), Call("ReserveCtor", o, o))

NewCopy(o, p) ==
    /\ status = "ok"
    /\ ~alive[o] /\ alive[p]
    /\ Return(o, CopyCtor(Vec(p)), Call("CopyCtor", o, p))

\* SimpleVector() noexcept = default
NewDefault(o) ==
    /\ status = "ok"
    /\ ~alive[o]
    /\ Return(o, EmptyVec, Call("DefaultCtor", o, o))

\* The object goes out of scope: its ArrayPtr releases the array.
Destroy(o) ==
    /\ status = "ok"
    /\ alive[o]
    /\ items_' = [items_ EXCEPT ![o] = <<>>]
    /\ size_' = [size_ EXCEPT ![o] = 0]
    /\ capacity_' = [capacity_ EXCEPT ![o] = 0]
    /\ alive' = [alive EXCEPT ![o] = FALSE]
    /\ last' = Call("Destroy", o, o)
    /\ UNCHANGED status

\* A move constructor that takes the array and leaves the source its capacity_.
NewMove_KeepsCapacity(o, p) ==
    /\ status = "ok"
    /\ ~alive[o] /\ alive[p]
    /\ items_' = [items_ EXCEPT ![o] = items_[p], ![p] = EmptyVec.items]
    /\ size_' = [size_ EXCEPT ![o] = size_[p], ![p] = 0]
    /\ capacity_' = [capacity_ EXCEPT ![o] = capacity_[p]]
    /\ alive' = [alive EXCEPT ![o] = TRUE]
    /\ last' = Call("MoveCtor", o, p)
    /\ UNCHANGED status

\* SimpleVector(SimpleVector&& other)
NewMove(o, p) ==
    /\ status = "ok"
    /\ ~alive[o] /\ alive[p]
    /\ items_' = [items_ EXCEPT ![o] = items_[p], ![p] = EmptyVec.items]
    /\ size_' = [size_ EXCEPT ![o] = size_[p], ![p] = 0]
    /\ capacity_' = [capacity_ EXCEPT ![o] = capacity_[p], ![p] = 0]
    /\ alive' = [alive EXCEPT ![o] = TRUE]
    /\ last' = Call("MoveCtor", o, p)
    /\ UNCHANGED status

\* SimpleVector& operator=(const SimpleVector& rhs)
DoCopyAssign(o, p) ==
    /\ status = "ok"
    /\ alive[o] /\ alive[p]
    /\ \/ /\ ~NotEqual(Vec(o), Vec(p), o = p)      \* assert(*this != rhs) fails
          /\ Abort(Call("CopyAssign", o, p))
       \/ Return(o, CopyAssign(Vec(o), Vec(p)), Call("CopyAssign", o, p))

\* SimpleVector& operator=(SimpleVector&& rhs)
DoMoveAssign(o, p) ==
    /\ status = "ok"
    /\ alive[o] /\ alive[p]
    /\ \/ /\ ~NotEqual(Vec(o), Vec(p), o = p)      \* assert(*this != rhs) fails
          /\ Abort(Call("MoveAssign", o, p))
       \/ Return(o, MoveAssign(Vec(o), Vec(p)), Call("MoveAssign", o, p))

DoPushBack(o, x) ==
    /\ status = "ok"
    /\ alive[o]
    /\ Return(o, PushBack(Vec(o), x), [Call("PushBack", o, o) EXCEPT !.x = x])

DoPopBack(o) ==
    /\ status = "ok"
    /\ alive[o]
    /\ size_[o] > 0
    /\ Return(o, PopBack(Vec(o)), Call("PopBack", o, o))

DoInsert(o, i, x) ==
    /\ status = "ok"
    /\ alive[o]
    /\ i <= size_[o]
    /\ Return(o, Insert(Vec(o), i, x),
              [Call("Insert", o, o) EXCEPT !.n = i, !.x = x,
                                           !.ret = InsertReturn(Vec(o), i)])

DoErase(o, i) ==
    /\ status = "ok"
    /\ alive[o]
    /\ i < size_[o]
    /\ Return(o, Erase(Vec(o), i),
              [Call("Erase", o, o) EXCEPT !.n = i, !.ret = EraseReturn(Vec(o), i)])

DoClear(o) ==
    /\ status = "ok"
    /\ alive[o]
    /\ Return(o, Clear(Vec(o)), Call("Clear", o, o))

DoReserve(o, n) ==
    /\ status = "ok"
    /\ alive[o]
    /\ \E garbage \in [ReserveOutside(Vec(o), n) -> Type] :
          Return(o, Reserve(Vec(o), n, garbage),
                 [Call("Reserve", o, o) EXCEPT !.n = n])

DoResize(o, n) ==
    /\ status = "ok"
    /\ alive[o]
    /\ Return(o, Resize(Vec(o), n),
              [Call("Resize", o, o) EXCEPT !.n = n, !.osize = size_[o]])

\* operator[](index) = x, index < size_
DoAssign(o, i, x) ==
    /\ status = "ok"
    /\ alive[o]
    /\ i < size_[o]
    /\ Return(o, Store(Vec(o), i, x), Call("Index", o, o))

\* void swap(SimpleVector& other)
DoSwap(o, p) ==
    /\ status = "ok"
    /\ alive[o] /\ alive[p]
    /\ items_' = [items_ EXCEPT ![o] = items_[p], ![p] = items_[o]]
    /\ size_' = [size_ EXCEPT ![o] = size_[p], ![p] = size_[o]]
    /\ capacity_' = [capacity_ EXCEPT ![o] = capacity_[p], ![p] = capacity_[o]]
    /\ last' = Call("swap", o, p)
    /\ UNCHANGED <<alive, status>>

Next ==
    \/ \E o \in Objs : NewDefault(o)
    \/ \E o \in Objs : Destroy(o)
    \/ \E o \in Objs, n \in 0..MaxSlots, x \in Type : NewFill(o, n, x)
    \/ \E o \in Objs, init \in Lists : NewList(o, init)
    \/ \E o \in Objs, n \in 0..MaxSlots : NewReserve(o, n)
    \/ \E o \in Objs, p \in Objs : NewCopy(o, p)
    \/ \E o \in Objs, p \in Objs : NewMove(o, p)
    \/ \E o \in Objs, p \in Objs : DoCopyAssign(o, p)
    \/ \E o \in Objs, p \in Objs : DoMoveAssign(o, p)
    \/ \E o \in Objs, x \in Type : DoPushBack(o, x)
    \/ \E o \in Objs : DoPopBack(o)
    \/ \E o \in Objs, i \in 0..MaxSlots, x \in Type : DoInsert(o, i, x)
    \/ \E o \in Objs, i \in 0..MaxSlots : DoErase(o, i)
    \/ \E o \in Objs : DoClear(o)
    \/ \E o \in Objs, n \in 0..MaxSlots : DoReserve(o, n)
    \/ \E o \in Objs, n \in 0..MaxSlots : DoResize(o, n)
    \/ \E o \in Objs, i \in 0..MaxSlots, x \in Type : DoAssign(o, i, x)
    \/ \E o \in Objs, p \in Objs : DoSwap(o, p)

Spec == Init /\ [][Next]_vars

\* Sanity of the model: while no access has left an array, the live elements
\* are in the array and the array is no longer than capacity_.
TypeOK ==
    /\ \A o \in Objs : items_[o] \in Seq(Type) /\ Len(items_[o]) <= capacity_[o]
    /\ status \in {"ok", "ub", "aborted"}
    /\ status # "ub" => \A o \in Objs : size_[o] <= Len(items_[o])

(***************************************************************************)
(* Single calls.  The member functions that are functions of the           *)
(* containers they are given are applied once to containers drawn from     *)
(* every state a container of at most MaxPure slots can be in: an array of *)
(* capacity_ slots with size_ of them live, or, after a copy, an array of  *)
(* size_ slots under a larger capacity_.                                   *)
(***************************************************************************)

Vectors ==
    {[items |-> s, size |-> n, capacity |-> c] :
        s \in UNION {[1..k -> Type] : k \in 0..MaxPure},
        n \in 0..MaxPure, c \in 0..MaxPure}

InitPure ==
    \E va \in Vectors, vb \in Vectors :
       /\ \A v \in {va, vb} :
             /\ v.size <= Len(v.items)
             /\ Len(v.items) <= v.capacity
             /\ Len(v.items) < v.capacity => v.size = Len(v.items)
       /\ items_ = [o \in Objs |-> IF o = "a" THEN va.items ELSE vb.items]
       /\ size_ = [o \in Objs |-> IF o = "a" THEN va.size ELSE vb.size]
       /\ capacity_ = [o \in Objs |-> IF o = "a" THEN va.capacity ELSE vb.capacity]
       /\ alive = [o \in Objs |-> TRUE]
       /\ status = "ok"
       /\ last = NoOp

\* o.At(index); ret is what the call returns or that it threw.
ApplyAt(o, index) ==
    /\ last.op = "none"
    /\ last' = [Call("At", o, o) EXCEPT !.n = index, !.ret = At(Vec(o), index)]
    /\ UNCHANGED <<items_, size_, capacity_, alive, status>>

\* The six comparisons of o with p (the same object when o = p); ret is what
\* each returns.
ApplyCompare(o, p) ==
    /\ last.op = "none"
    /\ last' = [Call("compare", o, p) EXCEPT
                   !.ret = [eq |-> Equal(Vec(o), Vec(p), o = p),
                            ne |-> NotEqual(Vec(o), Vec(p), o = p),
                            lt |-> Less(Vec(o), Vec(p)),
                            le |-> LessEq(Vec(o), Vec(p)),
                            gt |-> Greater(Vec(o), Vec(p)),
                            ge |-> GreaterEq(Vec(o), Vec(p))]]
    /\ UNCHANGED <<items_, size_, capacity_, alive, status>>

\* o.Resize(n) with n above capacity_
ApplyResize(o, n) ==
    /\ last.op = "none"
    /\ n > capacity_[o]
    /\ LET r == Resize(Vec(o), n)
       IN  /\ items_' = [items_ EXCEPT ![o] = r.items]
           /\ size_' = [size_ EXCEPT ![o] = r.size]
           /\ capacity_' = [capacity_ EXCEPT ![o] = r.capacity]
           /\ status' = IF r.oob \/ r.oobread THEN "ub" ELSE "ok"
    /\ last' = [Call("Resize", o, o) EXCEPT !.n = n, !.osize = size_[o]]
    /\ UNCHANGED alive

NextPure ==
    \/ \E o \in Objs, index \in 0..MaxPure : ApplyAt(o, index)
    \/ \E o \in Objs, p \in Objs : ApplyCompare(o, p)
    \/ \E o \in Objs, n \in 1..(2 * MaxPure + 1) : ApplyResize(o, n)

SpecPure == InitPure /\ [][NextPure]_vars

(***************************************************************************)
(* The capacity loop of Resize, one iteration at a time, with capacity_ a  *)
(* size_t of WordBits bits: unsigned arithmetic wraps modulo 2^WordBits.   *)
(* Object "a" has been built with some capacity and Resize(last.n) has     *)
(* been called on it; last.op is the line the call has reached and         *)
(* last.ret the number of iterations made so far.                          *)
(***************************************************************************)

\* The number of values of a size_t.
Word == Pow2(WordBits)

InitLoop ==
    \E capacity \in 0..(Word - 1), new_size \in 0..(Word - 1) :
       /\ items_ = [o \in Objs |-> IF o = "a" THEN ArrayPtr(capacity) ELSE <<>>]
       /\ size_ = [o \in Objs |-> 0]
       /\ capacity_ = [o \in Objs |-> IF o = "a" THEN capacity ELSE 0]
       /\ alive = [o \in Objs |-> TRUE]
       /\ status = "ok"
       /\ last = [Call("Resize.if", "a", "a") EXCEPT !.n = new_size]

\* if (new_size > size_) { if (new_size > capacity_) {
ResizeIf ==
    /\ last.op = "Resize.if"
    /\ last' = [last EXCEPT !.op = IF /\ last.n > size_[last.tgt]
                                     /\ last.n > capacity_[last.tgt]
                                  THEN "Resize.while" ELSE "Resize.done"]
    /\ UNCHANGED <<items_, size_, capacity_, alive, status>>

\* while (new_size > capacity_) capacity_ = (capacity_ == 0) ? 1 : capacity_ * 2;
WhileBody ==
    /\ last.op = "Resize.while"
    /\ last.n > capacity_[last.tgt]
    /\ last.ret < Word
    /\ capacity_' = [capacity_ EXCEPT ![last.tgt] =
                        IF @ = 0 THEN 1 ELSE (@ * 2) % Word]
    /\ last' = [last EXCEPT !.ret = @ + 1]
    /\ UNCHANGED <<items_, size_, alive, status>>

\* The loop condition is false: on to ArrayPtr<Type> temp(capacity_).
WhileExit ==
    /\ last.op = "Resize.while"
    /\ ~(last.n > capacity_[last.tgt])
    /\ last' = [last EXCEPT !.op = "Resize.alloc"]
    /\ UNCHANGED <<items_, size_, capacity_, alive, status>>

NextLoop == ResizeIf \/ WhileBody \/ WhileExit

SpecLoop == InitLoop /\ [][NextLoop]_vars

(***************************************************************************)
(* The claims.                                                             *)
(***************************************************************************)

\* The operations that change one container and take no other container.
Mutators == {"PushBack", "PopBack", "Insert", "Erase", "Resize", "Reserve",
             "Clear", "Index"}

\* C1: in every reachable state the array every container owns has exactly
\* capacity_ slots, and no operation has read or written a slot outside the
\* array it was applied to.
C1_ArrayHasCapacitySlots ==
    /\ status # "ub"
    /\ \A o \in Objs : Len(items_[o]) = capacity_[o]

\* C2: in every reachable state of every container, size_ <= capacity_.
C2_SizeWithinCapacity ==
    \A o \in Objs : size_[o] <= capacity_[o]

\* C2's case: a Resize of a non-empty container has grown it to exactly its
\* new capacity.
C2_Witness ==
    /\ status = "ok"
    /\ last.op = "Resize"
    /\ 0 < last.osize /\ last.osize < last.n
    /\ size_[last.tgt] = last.n
    /\ capacity_[last.tgt] = last.n

\* C3: right after copy construction the new container's array is freshly
\* allocated with exactly the source's capacity_ slots, its size_ and capacity_
\* equal the source's and its elements [0, size_) equal the source's in order.
C3_CopyConstruction ==
    last.op = "CopyCtor" =>
        LET d == last.tgt
            s == last.src
        IN  /\ size_[d] = size_[s]
            /\ capacity_[d] = capacity_[s]
            /\ Len(items_[d]) = capacity_[s]
            /\ SubSeq(items_[d], 1, size_[d]) = SubSeq(items_[s], 1, size_[s])

\* C4: a = a and a = std::move(a) complete without a failed assertion and
\* leave a's size_, capacity_ and elements as they were.
C4_SelfAssignmentNoOp ==
    [][(last'.op \in {"CopyAssign", "MoveAssign"} /\ last'.tgt = last'.src) =>
          LET a == last'.tgt
          IN  /\ status' = "ok"
              /\ size_'[a] = size_[a]
              /\ capacity_'[a] = capacity_[a]
              /\ SubSeq(items_'[a], 1, size_'[a]) = SubSeq(items_[a], 1, size_[a])
      ]_vars

\* C5: for distinct a and b, a = b completes, leaves a with b's size_ and
\* elements, and leaves b's size_, capacity_ and elements unchanged.
C5_CopyAssignment ==
    [][(last'.op = "CopyAssign" /\ last'.tgt # last'.src) =>
          LET a == last'.tgt
              b == last'.src
          IN  /\ status' = "ok"
              /\ size_'[a] = size_[b]
              /\ SubSeq(items_'[a], 1, size_'[a]) = SubSeq(items_[b], 1, size_[b])
              /\ size_'[b] = size_[b]
              /\ capacity_'[b] = capacity_[b]
              /\ SubSeq(items_'[b], 1, size_'[b]) = SubSeq(items_[b], 1, size_[b])
      ]_vars

\* C6: for distinct a and b, a = std::move(b) completes, leaves a with b's
\* size_ and the elements b held, grows a's capacity_ only if b's size_
\* exceeded it, and leaves b with size_ <= capacity_.
C6_MoveAssignment ==
    [][(last'.op = "MoveAssign" /\ last'.tgt # last'.src) =>
          LET a == last'.tgt
              b == last'.src
          IN  /\ status' = "ok"
              /\ size_'[a] = size_[b]
              /\ SubSeq(items_'[a], 1, size_'[a]) = SubSeq(items_[b], 1, size_[b])
              /\ capacity_'[a] >= capacity_[a]
              /\ capacity_'[a] > capacity_[a] => size_[b] > capacity_[a]
              /\ size_'[b] <= capacity_'[b]
      ]_vars

\* C7: once one container has been copy-constructed or copy-assigned from the
\* other, a mutating operation on either of them (here: the first one after
\* the copy) leaves the other's size_, capacity_ and elements unchanged.
C7_DeepCopyIsolation ==
    [][(/\ status = "ok"
        /\ last.op \in {"CopyCtor", "CopyAssign"} /\ last.tgt # last.src
        /\ last'.op \in Mutators) =>
          LET p == Other(last'.tgt)
          IN  /\ size_'[p] = size_[p]
              /\ capacity_'[p] = capacity_[p]
              /\ SubSeq(items_'[p], 1, size_'[p]) = SubSeq(items_[p], 1, size_[p])
      ]_vars

\* C8: move construction b(std::move(a)) gives b the array, size_ and
\* capacity_ a had, and leaves a alive in the state of a default-constructed
\* container (no array, size_ = capacity_ = 0), sharing nothing with b.
C8_MoveConstruction ==
    [][last'.op = "MoveCtor" =>
          LET b == last'.tgt
              a == last'.src
          IN  /\ status' = "ok"
              /\ items_'[b] = items_[a]
              /\ size_'[b] = size_[a]
              /\ capacity_'[b] = capacity_[a]
              /\ alive'[a]
              /\ items_'[a] = EmptyVec.items
              /\ size_'[a] = EmptyVec.size
              /\ capacity_'[a] = EmptyVec.capacity
      ]_vars

\* C8's case: a container with live elements and spare capacity has been
\* moved from.
C8_Witness ==
    /\ last.op = "MoveCtor"
    /\ size_[last.tgt] > 0
    /\ capacity_[last.tgt] > size_[last.tgt]
    /\ capacity_[last.src] = 0

\* C9: after Resize(n) with n above the old size_, size_ = n, the elements
\* [old size_, n) are in the array and equal Type(), and the elements
\* [0, old size_) are unchanged.
C9_ResizeUp ==
    [][(last'.op = "Resize" /\ last'.n > size_[last'.tgt]) =>
          LET o == last'.tgt
              n == last'.n
          IN  /\ size_'[o] = n
              /\ \A i \in (size_[o] + 1)..n :
                    i \in DOMAIN items_'[o] /\ items_'[o][i] = Default
              /\ \A i \in 1..size_[o] : items_'[o][i] = items_[o][i]
      ]_vars

\* C10: after Resize(n) with n at most the old size_, size_ = n and capacity_
\* and the array, so the elements [0, n) too, are as before.
C10_ResizeDown ==
    [][(last'.op = "Resize" /\ last'.n <= size_[last'.tgt]) =>
          LET o == last'.tgt
          IN  /\ status' = "ok"
              /\ size_'[o] = last'.n
              /\ capacity_'[o] = capacity_[o]
              /\ items_'[o] = items_[o]
      ]_vars

\* C10's case: a Resize has cut a container down to fewer, but some, elements.
C10_Witness ==
    /\ status = "ok"
    /\ last.op = "Resize"
    /\ 0 < last.n /\ last.n < last.osize
    /\ size_[last.tgt] = last.n

\* C11: no PushBack, PopBack, Erase or Clear lowers capacity_; a PushBack
\* leaves capacity_ as it was when size_ < capacity_, and when size_ =
\* capacity_ makes it twice what it was, or 1 if it was 0.
C11_CapacityGrowth ==
    [][(last'.op \in {"PushBack", "PopBack", "Erase", "Clear"}) =>
          LET o == last'.tgt
          IN  /\ capacity_'[o] >= capacity_[o]
              /\ last'.op = "PushBack" =>
                    capacity_'[o] = IF size_[o] < capacity_[o] THEN capacity_[o]
                                    ELSE IF capacity_[o] = 0 THEN 1
                                    ELSE 2 * capacity_[o]
      ]_vars

\* C11's case: a PushBack has filled the third of four slots.
C11_Witness ==
    /\ status = "ok"
    /\ last.op = "PushBack"
    /\ size_[last.tgt] = 3
    /\ capacity_[last.tgt] = 4

\* C12: after PushBack(value), size_ is one more than before, the new last
\* element is in the array and equals value, and the elements [0, old size_)
\* are unchanged.
C12_PushBack ==
    [][(last'.op = "PushBack") =>
          LET o == last'.tgt
          IN  /\ size_'[o] = size_[o] + 1
              /\ size_'[o] \in DOMAIN items_'[o]
              /\ items_'[o][size_'[o]] = last'.x
              /\ \A i \in 1..size_[o] : items_'[o][i] = items_[o][i]
      ]_vars

\* C13: after Insert(position, value) with position at index i <= size_, size_
\* is one more than before, the elements are old[0, i), value, old[i, size_)
\* and are in the array, and the position returned is index i.
C13_Insert ==
    [][(last'.op = "Insert") =>
          LET o == last'.tgt
              i == last'.n
          IN  /\ size_'[o] = size_[o] + 1
              /\ size_'[o] <= Len(items_'[o])
              /\ SubSeq(items_'[o], 1, size_'[o]) =
                    SubSeq(items_[o], 1, i) \o <<last'.x>> \o
                    SubSeq(items_[o], i + 1, size_[o])
              /\ last'.ret = i
      ]_vars

\* C14: after Erase(position) with position at index i < size_, size_ is one
\* less than before, capacity_ is unchanged, the elements are old[0, i),
\* old[i + 1, size_), and the position returned is index i, which is the new
\* end when the last element was erased.
C14_Erase ==
    [][(last'.op = "Erase") =>
          LET o == last'.tgt
              i == last'.n
          IN  /\ status' = "ok"
              /\ size_'[o] = size_[o] - 1
              /\ capacity_'[o] = capacity_[o]
              /\ SubSeq(items_'[o], 1, size_'[o]) =
                    SubSeq(items_[o], 1, i) \o SubSeq(items_[o], i + 2, size_[o])
              /\ last'.ret = i
              /\ i = size_[o] - 1 => last'.ret = size_'[o]
      ]_vars

\* C14's case: an Erase has taken the middle one of three elements, leaving
\* two different ones.
C14_Witness ==
    /\ status = "ok"
    /\ last.op = "Erase"
    /\ last.n = 1
    /\ size_[last.tgt] = 2
    /\ items_[last.tgt][1] # items_[last.tgt][2]

\* C15: Reserve(n) with n at most capacity_ changes nothing; with n above
\* capacity_ it leaves an array of n slots and capacity_ = n; either way size_
\* and the elements [0, size_) are as before.
C15_Reserve ==
    [][(last'.op = "Reserve") =>
          LET o == last'.tgt
              n == last'.n
          IN  /\ n <= capacity_[o] =>
                    /\ status' = "ok"
                    /\ capacity_'[o] = capacity_[o]
                    /\ items_'[o] = items_[o]
              /\ n > capacity_[o] =>
                    /\ capacity_'[o] = n
                    /\ Len(items_'[o]) = n
              /\ size_'[o] = size_[o]
              /\ \A i \in 1..size_[o] :
                    i \in DOMAIN items_'[o] /\ items_'[o][i] = items_[o][i]
      ]_vars

\* C15's case: a Reserve(4) has left two different elements in four slots.
C15_Witness ==
    /\ status = "ok"
    /\ last.op = "Reserve"
    /\ last.n = 4
    /\ capacity_[last.tgt] = 4
    /\ size_[last.tgt] = 2
    /\ items_[last.tgt][1] # items_[last.tgt][2]

\* C16: At(index) with index at or above size_ throws, with index below size_
\* returns the element operator[] returns, and either way leaves the array,
\* size_ and capacity_ as they were.
C16_At ==
    [][(last'.op = "At") =>
          LET o == last'.tgt
              index == last'.n
          IN  /\ items_' = items_ /\ size_' = size_ /\ capacity_' = capacity_
              /\ index >= size_[o] => last'.ret.threw
              /\ index < size_[o] =>
                    /\ ~last'.ret.threw
                    /\ last'.ret.value = Subscript(Vec(o), index)
      ]_vars

\* C16's case: At(0) on an empty container that has capacity has thrown.
C16_Witness ==
    /\ last.op = "At"
    /\ last.n = 0
    /\ size_[last.tgt] = 0
    /\ capacity_[last.tgt] > 0
    /\ last.ret.threw

\* C17: lhs == rhs is true exactly when the two are the same object, or have
\* the same size_ and equal elements at every index below size_, whatever
\* their capacity_ and the slots at or beyond size_; lhs != rhs is its
\* negation; every container equals itself.
C17_Equality ==
    last.op = "compare" =>
       LET o == last.tgt
           p == last.src
       IN  /\ last.ret.eq <=>
                 \/ o = p
                 \/ /\ size_[o] = size_[p]
                    /\ \A i \in 1..size_[o] : items_[o][i] = items_[p][i]
           /\ last.ret.ne <=> ~last.ret.eq
           /\ o = p => last.ret.eq

\* C17's case: two containers with the same live element, different capacity_
\* and different slots beyond size_ have compared equal.
C17_Witness ==
    /\ last.op = "compare"
    /\ last.tgt # last.src
    /\ last.ret.eq
    /\ size_["a"] = 1 /\ size_["b"] = 1
    /\ capacity_["a"] = 2 /\ capacity_["b"] = 3
    /\ items_["a"] = <<1, 0>> /\ items_["b"] = <<1, 1, 1>>

\* The lexicographic order on sequences: s is before t when, after a common
\* prefix, s has ended and t has not, or s has the smaller element.
LexLess(s, t) ==
    \E k \in 0..Len(s) :
       /\ k <= Len(t)
       /\ \A i \in 1..k : s[i] = t[i]
       /\ \/ k = Len(s) /\ k < Len(t)
          \/ k < Len(s) /\ k < Len(t) /\ s[k + 1] < t[k + 1]

\* C18: lhs < rhs is the lexicographic order of the live elements; lhs <= rhs
\* is (lhs < rhs or lhs == rhs), lhs > rhs is rhs < lhs, and lhs >= rhs is
\* not (lhs < rhs).
C18_Ordering ==
    last.op = "compare" =>
       LET l == SubSeq(items_[last.tgt], 1, size_[last.tgt])
           r == SubSeq(items_[last.src], 1, size_[last.src])
       IN  /\ last.ret.lt <=> LexLess(l, r)
           /\ last.ret.le <=> (last.ret.lt \/ last.ret.eq)
           /\ last.ret.gt <=> LexLess(r, l)
           /\ last.ret.ge <=> ~last.ret.lt

\* C18's case: a container that is a proper prefix of the other has compared
\* less, and the empty one less than a non-empty one.
C18_Witness ==
    /\ last.op = "compare"
    /\ last.ret.lt /\ last.ret.le /\ ~last.ret.gt /\ ~last.ret.ge
    /\ size_[last.tgt] = 1 /\ size_[last.src] = 2
    /\ items_[last.tgt][1] = items_[last.src][1]

\* The capacity the growth rule gives: max(1, capacity) doubled the least
\* number of times that brings it to new_size or more.
GrownCapacity(capacity, new_size) ==
    LET base == IF capacity = 0 THEN 1 ELSE capacity
        k == CHOOSE j \in 0..new_size :
                /\ base * Pow2(j) >= new_size
                /\ \A h \in 0..(j - 1) : base * Pow2(h) < new_size
    IN  base * Pow2(k)

\* C19: after Resize(n) with n above capacity_, capacity_ is max(1, old
\* capacity_) doubled until it is n or more, the array has that many slots,
\* and the elements [0, old size_) are in it, in order.
C19_ResizeGrowth ==
    [][(last'.op = "Resize" /\ last'.n > capacity_[last'.tgt]) =>
          LET o == last'.tgt
          IN  /\ capacity_'[o] = GrownCapacity(capacity_[o], last'.n)
              /\ Len(items_'[o]) = capacity_'[o]
              /\ \A i \in 1..size_[o] : items_'[o][i] = items_[o][i]
      ]_vars

\* C19's case: a Resize(7) of a container of capacity 3 has doubled twice,
\* to 12 slots, and kept a non-default first element.
C19_Witness ==
    /\ status = "ok"
    /\ last.op = "Resize"
    /\ last.n = 7
    /\ last.osize > 0
    /\ capacity_[last.tgt] = 12
    /\ Len(items_[last.tgt]) = 12
    /\ items_[last.tgt][1] = 1

\* C20: with capacity_ a size_t of w bits, the capacity loop of Resize ends
\* for every new_size below 2^w and every capacity_, with capacity_ >=
\* new_size.  A loop that ends never has the same capacity_ twice, so it is
\* through after fewer than 2^w iterations.
C20_LoopTerminates ==
    /\ last.op = "Resize.while" => last.ret < Word
    /\ last.op = "Resize.alloc" => capacity_[last.tgt] >= last.n

====
